---- MODULE Spec2Model ----
(***************************************************************************)
(* Model of numpy_dispatch/dummy.py: the __array_module__ entry point that *)
(* inject_array_module installs on an array type, the fallback module      *)
(* object it synthesises (_ArrayFunctionFallback) and the two adapters the *)
(* fallback hands out (_FakeUfunc, _BoundFunction).                        *)
(*                                                                         *)
(* Python objects live in `heap` (identity = index).  A call into an owner *)
(* instance's __array_ufunc__ / __array_function__ hook is a frame on      *)
(* `stack`; while a frame is on the stack the hook is running and may      *)
(* itself resolve, look up and call (re-entrancy).  `last` records the     *)
(* operation that produced the current state (with the inputs of a         *)
(* registration, resolution or lookup), `ret` what it returned or raised.  *)
(***************************************************************************)
EXTENDS Integers, Sequences, FiniteSets

VARIABLES registry, heap, stack, last, ret

vars == <<registry, heap, stack, last, ret>>

-----------------------------------------------------------------------------
(* Bounds of the exploration.                                              *)

MaxObjects == 3     \* objects ever constructed (fallbacks and adapters)
MaxDepth == 1       \* owner hooks in progress at once
MaxArgs == 2        \* positional arguments of an adapter call
MaxTypes == 2       \* length of the operand-type tuple given to the entry point

-----------------------------------------------------------------------------
(* The world the module is used in: array types, their instances, the      *)
(* concrete modules a registration may name, and numpy's namespace.        *)

None == "None"

Types == {"A", "B", "C"}

\* hasattr(arrtype, "__array_ufunc__") / hasattr(arrtype, "__array_function__")
HasArrayUfunc(T) == T \in {"A", "B"}
HasArrayFunction(T) == T \in {"A", "C"}

Instances == {"a1", "a2", "b1", "c1"}

TypeOf(inst) ==
    CASE inst \in {"a1", "a2"} -> "A"
      [] inst = "b1" -> "B"
      [] inst = "c1" -> "C"

\* arrtype.__module__
ModuleNameOf(T) == "mod_of_" \o T

Modules == {"M1"}

KnownSets == {{}, {"B"}}

\* getattr(np, attr): the symbols of numpy's top-level namespace the model uses.
\* kind "ufunc": isinstance(symbol, np.ufunc), with its nin;
\* kind "function": hasattr(symbol, "_implementation");  kind "other": neither.
NumpyNames == {"add", "negative", "concatenate", "pi"}

NumpySymbol(attr) ==
    CASE attr = "add" -> [kind |-> "ufunc", name |-> "add", nin |-> 2]
      [] attr = "negative" -> [kind |-> "ufunc", name |-> "negative", nin |-> 1]
      [] attr = "concatenate" -> [kind |-> "function", name |-> "concatenate", nin |-> 0]
      [] attr = "pi" -> [kind |-> "other", name |-> "pi", nin |-> 0]

\* The names a caller looks up on a fallback.
LookupNames == NumpyNames \cup {"nosuch"}

\* Values given to fallback.array / fallback.asarray: a list and a numpy array.
ArgValues == {[type |-> "list", data |-> 1], [type |-> "ndarray", data |-> 2]}

\* What an owner hook may return.
HookValues == {"hook_result", "NotImplemented"}

SeqsUpTo(S, n) == UNION {[1..k -> S] : k \in 0..n}

Range(s) == {s[i] : i \in DOMAIN s}

-----------------------------------------------------------------------------
(* Outcomes of a Python call.                                              *)

Raise(exc, msg) == [kind |-> "raise", exc |-> exc, msg |-> msg]
NotImplemented == [kind |-> "NotImplemented"]

-----------------------------------------------------------------------------
(* inject_array_module and the entry point it installs.                    *)

NoEntry == [installed |-> FALSE]

\* The closure created by one inject_array_module call: the `def
\* __array_module__` with its free variables arrtype, known_types, module.
Closure(arrtype, known_types, module) ==
    [installed |-> TRUE, arrtype |-> arrtype, known_types |-> known_types,
     module |-> module]

\* Mutant of inject_array_module: only the __array_ufunc__ check is made.
inject_array_module_UfuncCheckOnly(arrtype, known_types, module) ==
    IF module = None /\ ~HasArrayUfunc(arrtype)
    THEN Raise("ValueError", "Array type must support __array_ufunc__")
    ELSE [kind |-> "install", entry |-> Closure(arrtype, known_types, module)]

\* Lines 129-133 and 149: the hook checks made when no module is given, then
\* the closure that is assigned to arrtype.__array_module__.
inject_array_module(arrtype, known_types, module) ==
    IF module = None /\ ~HasArrayUfunc(arrtype)
    THEN Raise("ValueError", "Array type must support __array_ufunc__")
    ELSE IF module = None /\ ~HasArrayFunction(arrtype)
    THEN Raise("ValueError", "Array type must support __array_function__")
    ELSE [kind |-> "install", entry |-> Closure(arrtype, known_types, module)]

\* Mutant of SetArrayModule: a registration keeps the known types of the
\* entry point it replaces (one known-type collection shared by every
\* registration of the type).
SetArrayModule_KeepsKnown(reg, arrtype, entry) ==
    [reg EXCEPT ![arrtype] =
        IF reg[arrtype].installed
        THEN [entry EXCEPT !.known_types = @ \cup reg[arrtype].known_types]
        ELSE entry]

\* `arrtype.__array_module__ = __array_module__`: the attribute of that one type.
SetArrayModule(reg, arrtype, entry) == [reg EXCEPT ![arrtype] = entry]

\* Mutant of LoopBreaks: the loop is left after its first iteration, so only
\* the first operand type is examined.
LoopBreaks_FirstOnly(entry, types, i) ==
    /\ i <= Len(types)
    /\ types[i] # entry.arrtype
    /\ types[i] \notin entry.known_types

\* Mutant of LoopBreaks: a resolution started while an owner hook is running
\* is refused (a re-entrancy guard).
LoopBreaks_NotReentrant(entry, types, i) ==
    \/ stack # <<>>
    \/ \E j \in i..Len(types) :
          types[j] # entry.arrtype /\ types[j] \notin entry.known_types

\* The for loop of the entry point from position i on: TRUE when it breaks
\* (a type that is neither arrtype nor in known_types), FALSE when it runs to
\* the end and the else clause is taken.
RECURSIVE LoopBreaks(_, _, _)
LoopBreaks(entry, types, i) ==
    IF i > Len(types) THEN FALSE
    ELSE IF types[i] = entry.arrtype THEN LoopBreaks(entry, types, i + 1)
    ELSE IF types[i] \in entry.known_types THEN LoopBreaks(entry, types, i + 1)
    ELSE TRUE

\* _ArrayFunctionFallback.__init__: the instance attributes it stores.  Inside
\* the class body `self.__self` is the name-mangled _ArrayFunctionFallback__self.
_ArrayFunctionFallback___init__(name, arrself) ==
    [cls |-> "_ArrayFunctionFallback",
     dict |-> [__name__ |-> name, _ArrayFunctionFallback__self |-> arrself]]

\* Mutant of __array_module__: the configured module is ignored and a
\* fallback is synthesised for every compatible call.
__array_module___IgnoresModule(entry, self, types) ==
    IF LoopBreaks(entry, types, 1) THEN NotImplemented
    ELSE [kind |-> "new",
          obj |-> _ArrayFunctionFallback___init__(ModuleNameOf(entry.arrtype), self)]

\* Mutant of __array_module__: the fallback is built once and handed out
\* again on later calls.
__array_module___CachesFallback(entry, self, types) ==
    IF LoopBreaks(entry, types, 1) THEN NotImplemented
    ELSE IF entry.module # None THEN [kind |-> "module", module |-> entry.module]
    ELSE IF \E id \in DOMAIN heap : heap[id].cls = "_ArrayFunctionFallback"
    THEN [kind |-> "object",
          id |-> CHOOSE id \in DOMAIN heap : heap[id].cls = "_ArrayFunctionFallback"]
    ELSE [kind |-> "new",
          obj |-> _ArrayFunctionFallback___init__(ModuleNameOf(entry.arrtype), self)]

\* The installed entry point, called as self.__array_module__(types).
__array_module__(entry, self, types) ==
    IF LoopBreaks(entry, types, 1) THEN NotImplemented
    ELSE IF entry.module # None THEN [kind |-> "module", module |-> entry.module]
    ELSE [kind |-> "new",
          obj |-> _ArrayFunctionFallback___init__(ModuleNameOf(entry.arrtype), self)]

-----------------------------------------------------------------------------
(* The adapters.                                                           *)

\* A bound method arrself.__array_ufunc__ / arrself.__array_function__.
BoundHook(hook, arrself) == [hook |-> hook, self |-> arrself]

_FakeUfunc___init__(ufunc, arrself) ==
    [cls |-> "_FakeUfunc",
     dict |-> [ufunc |-> ufunc, arrtypes |-> <<TypeOf(arrself)>>,
               arrufunc |-> BoundHook("__array_ufunc__", arrself)]]

_BoundFunction___init__(function, arrself) ==
    [cls |-> "_BoundFunction",
     dict |-> [func |-> function, arrtypes |-> <<TypeOf(arrself)>>,
               arrfunction |-> BoundHook("__array_function__", arrself)]]

\* Names defined in the class bodies (found before __getattr__ is tried).
ClassAttrs(cls) ==
    CASE cls = "_ArrayFunctionFallback" -> {"array", "asarray"}
      [] cls = "_FakeUfunc" -> {"prepare_args", "reduce", "accumulate", "outer"}
      [] cls = "_BoundFunction" -> {}

\* Mutant of _ArrayFunctionFallback.__getattr__: the _implementation marker is
\* not tested, every symbol that is no ufunc is bound as a function.
_ArrayFunctionFallback___getattr___NoMarkerTest(obj, attr) ==
    IF attr \notin NumpyNames
    THEN Raise("AttributeError", "module numpy has no attribute")
    ELSE LET numpy_symbol == NumpySymbol(attr)
             arrself == obj.dict._ArrayFunctionFallback__self
         IN  IF numpy_symbol.kind = "ufunc"
             THEN [kind |-> "new", obj |-> _FakeUfunc___init__(numpy_symbol, arrself)]
             ELSE [kind |-> "new", obj |-> _BoundFunction___init__(numpy_symbol, arrself)]

\* _ArrayFunctionFallback.__getattr__
_ArrayFunctionFallback___getattr__(obj, attr) ==
    IF attr \notin NumpyNames
    THEN Raise("AttributeError", "module numpy has no attribute")
    ELSE LET numpy_symbol == NumpySymbol(attr)
             arrself == obj.dict._ArrayFunctionFallback__self
         IN  IF numpy_symbol.kind = "ufunc"
             THEN [kind |-> "new", obj |-> _FakeUfunc___init__(numpy_symbol, arrself)]
             ELSE IF numpy_symbol.kind = "function"
             THEN [kind |-> "new", obj |-> _BoundFunction___init__(numpy_symbol, arrself)]
             ELSE Raise("AttributeError", "unsupported numpy function for")

\* Python's attribute lookup obj.attr: the instance __dict__, then the class,
\* then the class's __getattr__ when it has one.
ObjectGetattr(obj, attr) ==
    IF attr \in DOMAIN obj.dict
    THEN [kind |-> "attr", value |-> obj.dict[attr]]
    ELSE IF attr \in ClassAttrs(obj.cls)
    THEN [kind |-> "method", name |-> attr]
    ELSE IF obj.cls = "_ArrayFunctionFallback"
    THEN _ArrayFunctionFallback___getattr__(obj, attr)
    ELSE Raise("AttributeError", "object has no attribute")

\* np.array(...) / np.asarray(...): a numpy array holding the data.
np_asarray(arg) == [type |-> "ndarray", data |-> arg.data]

\* arrtype(arr): the value re-wrapped as arrtype.
CallType(arrtype, arr) == [type |-> arrtype, data |-> arr.data]

\* Mutant of prepare_args: only too few arguments are rejected.
prepare_args_TooFewOnly(obj, args, nin) ==
    LET n == IF nin = <<>> THEN obj.dict.ufunc.nin ELSE nin[1]
    IN  IF Len(args) < n
        THEN Raise("RuntimeError",
                   "Fake array_module: only inputs can be arguments to ufuncs")
        ELSE [kind |-> "args",
              args |-> [i \in 1..Len(args) |->
                           [type |-> obj.dict.arrtypes[1], data |-> args[i].data]]]

\* _FakeUfunc.prepare_args; nin is <<>> for None, <<n>> for nin=n.
prepare_args(obj, args, nin) ==
    LET n == IF nin = <<>> THEN obj.dict.ufunc.nin ELSE nin[1]
    IN  IF Len(args) # n
        THEN Raise("RuntimeError",
                   "Fake array_module: only inputs can be arguments to ufuncs")
        ELSE [kind |-> "args",
              args |-> [i \in 1..Len(args) |->
                           CallType(obj.dict.arrtypes[1], np_asarray(args[i]))]]

\* A call of a bound hook: the frame that runs in the owner instance.
Invoke(bound, func, method, types, args, kwargs) ==
    [kind |-> "invoke",
     frame |-> [hook |-> bound.hook, self |-> bound.self, func |-> func,
                method |-> method, types |-> types, args |-> args,
                kwargs |-> kwargs]]

\* _FakeUfunc.__call__
_FakeUfunc___call__(obj, args, kwargs) ==
    LET prepared == prepare_args(obj, args, <<>>)
    IN  IF prepared.kind = "raise" THEN prepared
        ELSE Invoke(obj.dict.arrufunc, obj.dict.ufunc, "__call__",
                    obj.dict.arrtypes, prepared.args, kwargs)

\* The shared tail of reduce / accumulate / outer: `self.arrfunc(self.ufunc,
\* method, self.arrtypes, args, kwargs)`.
CallArrfunc(obj, method, prepared, kwargs) ==
    LET arrfunc == ObjectGetattr(obj, "arrfunc")
    IN  IF prepared.kind = "raise" THEN prepared
        ELSE IF arrfunc.kind = "raise" THEN arrfunc
        ELSE Invoke(arrfunc.value, obj.dict.ufunc, method, obj.dict.arrtypes,
                    prepared.args, kwargs)

\* _FakeUfunc.reduce
_FakeUfunc_reduce(obj, args, kwargs) ==
    CallArrfunc(obj, "reduce", prepare_args(obj, args, <<1>>), kwargs)

\* _FakeUfunc.accumulate
_FakeUfunc_accumulate(obj, args, kwargs) ==
    CallArrfunc(obj, "accumulate", prepare_args(obj, args, <<1>>), kwargs)

\* _FakeUfunc.outer
_FakeUfunc_outer(obj, args, kwargs) ==
    CallArrfunc(obj, "outer", prepare_args(obj, args, <<>>), kwargs)

\* _BoundFunction.__call__
_BoundFunction___call__(obj, args, kwargs) ==
    Invoke(obj.dict.arrfunction, obj.dict.func, None, obj.dict.arrtypes, args, kwargs)

\* The shared body of _ArrayFunctionFallback.array / asarray: the numpy array,
\* then `self.__arraytype_(arr)`, whose attribute is looked up under its
\* name-mangled form.
RewrapAsArraytype(obj, arg) ==
    LET arr == np_asarray(arg)
        arraytype == ObjectGetattr(obj, "_ArrayFunctionFallback__arraytype_")
    IN  IF arraytype.kind = "raise" THEN arraytype
        ELSE [kind |-> "returned", value |-> CallType(arraytype.value, arr)]

\* _ArrayFunctionFallback.array
_ArrayFunctionFallback_array(obj, arg) == RewrapAsArraytype(obj, arg)

\* _ArrayFunctionFallback.asarray
_ArrayFunctionFallback_asarray(obj, arg) == RewrapAsArraytype(obj, arg)

-----------------------------------------------------------------------------
(* The state machine.                                                      *)

IdsOf(cls) == {id \in DOMAIN heap : heap[id].cls = cls}

\* After import: no type has an entry point, nothing is constructed, no hook
\* is running.
Init ==
    /\ registry = [T \in Types |-> NoEntry]
    /\ heap = <<>>
    /\ stack = <<>>
    /\ last = [op |-> "init"]
    /\ ret = [kind |-> "None"]

\* What a call leaves behind.  A constructed object is put on the heap and a
\* reference to it is the result; a hook invocation becomes a running frame;
\* anything else (a module, NotImplemented, an exception) is the result as is.
Finish(out) ==
    IF out.kind = "new"
    THEN /\ Len(heap) < MaxObjects
         /\ heap' = Append(heap, out.obj)
         /\ ret' = [kind |-> "object", id |-> Len(heap) + 1]
         /\ UNCHANGED stack
    ELSE IF out.kind = "invoke"
    THEN /\ Len(stack) < MaxDepth
         /\ stack' = Append(stack, out.frame)
         /\ ret' = [kind |-> "pending"]
         /\ UNCHANGED heap
    ELSE /\ ret' = out
         /\ UNCHANGED <<heap, stack>>

\* inject_array_module(arrtype, known_types, module)
InjectStep(arrtype, known_types, module) ==
    LET out == inject_array_module(arrtype, known_types, module)
    IN  /\ last' = [op |-> "inject", arrtype |-> arrtype,
                    known_types |-> known_types, module |-> module]
        /\ IF out.kind = "install"
           THEN /\ registry' = SetArrayModule(registry, arrtype, out.entry)
                /\ ret' = [kind |-> "None"]
           ELSE /\ registry' = registry
                /\ ret' = out
        /\ UNCHANGED <<heap, stack>>

\* self.__array_module__(types) on an instance whose type has an entry point.
ResolveStep(self, types) ==
    /\ registry[TypeOf(self)].installed
    /\ last' = [op |-> "resolve", self |-> self, types |-> types]
    /\ Finish(__array_module__(registry[TypeOf(self)], self, types))
    /\ UNCHANGED registry

\* fallback.<attr>
LookupStep(id, attr) ==
    /\ last' = [op |-> "getattr", attr |-> attr]
    /\ Finish(ObjectGetattr(heap[id], attr))
    /\ UNCHANGED registry

\* fallback.array(arg)
ArrayStep(id, arg) ==
    /\ last' = [op |-> "array", id |-> id]
    /\ Finish(_ArrayFunctionFallback_array(heap[id], arg))
    /\ UNCHANGED registry

\* fallback.asarray(arg)
AsarrayStep(id, arg) ==
    /\ last' = [op |-> "asarray", id |-> id]
    /\ Finish(_ArrayFunctionFallback_asarray(heap[id], arg))
    /\ UNCHANGED registry

\* One of the call forms of an adapter.
AdapterStep(method, out) ==
    /\ last' = [op |-> method]
    /\ Finish(out)
    /\ UNCHANGED registry

UfuncCallStep(id, args, kwargs) ==
    AdapterStep("__call__", _FakeUfunc___call__(heap[id], args, kwargs))

UfuncReduceStep(id, args, kwargs) ==
    AdapterStep("reduce", _FakeUfunc_reduce(heap[id], args, kwargs))

UfuncAccumulateStep(id, args, kwargs) ==
    AdapterStep("accumulate", _FakeUfunc_accumulate(heap[id], args, kwargs))

UfuncOuterStep(id, args, kwargs) ==
    AdapterStep("outer", _FakeUfunc_outer(heap[id], args, kwargs))

FunctionCallStep(id, args, kwargs) ==
    AdapterStep("function", _BoundFunction___call__(heap[id], args, kwargs))

\* The innermost running hook returns `value`; the adapter's
\* `return self.arr...(...)` hands it to the adapter's caller.
HookReturnStep(value) ==
    /\ stack # <<>>
    /\ last' = [op |-> "hook_return", frame |-> stack[Len(stack)]]
    /\ stack' = SubSeq(stack, 1, Len(stack) - 1)
    /\ ret' = [kind |-> "returned", value |-> value]
    /\ UNCHANGED <<registry, heap>>

-----------------------------------------------------------------------------
(* Inputs.                                                                 *)

\* The operand types of one call: distinct types, in the caller's order.
OperandTuples ==
    {ts \in SeqsUpTo(Types, MaxTypes) :
        \A i, j \in DOMAIN ts : ts[i] = ts[j] => i = j}

\* The positional arguments of a call: k values, lists and arrays alternating.
ArgTuple(k) ==
    [i \in 1..k |-> IF i % 2 = 1 THEN [type |-> "list", data |-> i]
                    ELSE [type |-> "ndarray", data |-> i]]

\* The keyword arguments given along with k positional arguments.
KwargsFor(k) == IF k % 2 = 0 THEN "no_kwargs" ELSE "kw_dtype"

\* The (*args, **kwargs) of an adapter call.
CallInputs == {[args |-> ArgTuple(k), kwargs |-> KwargsFor(k)] : k \in 0..MaxArgs}

-----------------------------------------------------------------------------
(* Registration and resolution over every type, known-type set and module. *)

InjectAny ==
    \E arrtype \in Types, known_types \in KnownSets, module \in Modules \cup {None} :
        InjectStep(arrtype, known_types, module)

ResolveAny ==
    \E self \in Instances, types \in OperandTuples : ResolveStep(self, types)

NextRegistry ==
    \/ InjectAny
    \/ ResolveAny

SpecRegistry == Init /\ [][NextRegistry]_vars

-----------------------------------------------------------------------------
(* The fallback and its adapters, for owner type A registered with known   *)
(* type B, with or without a module.                                       *)

Inject ==
    \E module \in Modules \cup {None} : InjectStep("A", {"B"}, module)

ResolveInputs == {<<"A">>, <<"B", "A">>, <<"A", "C">>}

Resolve ==
    \E types \in ResolveInputs : ResolveStep("a1", types)

Lookup ==
    \E id \in IdsOf("_ArrayFunctionFallback"), attr \in LookupNames :
        LookupStep(id, attr)

Array ==
    \E id \in IdsOf("_ArrayFunctionFallback"), arg \in ArgValues : ArrayStep(id, arg)

Asarray ==
    \E id \in IdsOf("_ArrayFunctionFallback"), arg \in ArgValues : AsarrayStep(id, arg)

UfuncCall ==
    \E id \in IdsOf("_FakeUfunc"), call \in CallInputs :
        UfuncCallStep(id, call.args, call.kwargs)

UfuncReduce ==
    \E id \in IdsOf("_FakeUfunc"), call \in CallInputs :
        UfuncReduceStep(id, call.args, call.kwargs)

UfuncAccumulate ==
    \E id \in IdsOf("_FakeUfunc"), call \in CallInputs :
        UfuncAccumulateStep(id, call.args, call.kwargs)

UfuncOuter ==
    \E id \in IdsOf("_FakeUfunc"), call \in CallInputs :
        UfuncOuterStep(id, call.args, call.kwargs)

FunctionCall ==
    \E id \in IdsOf("_BoundFunction"), call \in CallInputs :
        FunctionCallStep(id, call.args, call.kwargs)

HookReturn ==
    \E value \in HookValues : HookReturnStep(value)

Next ==
    \/ Inject
    \/ Resolve
    \/ Lookup
    \/ Array
    \/ Asarray
    \/ UfuncCall
    \/ UfuncReduce
    \/ UfuncAccumulate
    \/ UfuncOuter
    \/ FunctionCall
    \/ HookReturn

Spec == Init /\ [][Next]_vars

-----------------------------------------------------------------------------
(* Properties of registration and resolution (checked under SpecRegistry). *)

\* The owner type of the resolution that produced the current state, and the
\* entry point it ran.
ResolvedType == TypeOf(last.self)
ResolvedEntry == registry[ResolvedType]

\* Every operand type is the owner type or one of its known types.
AllUnderstood(T, known_types, types) == Range(types) \subseteq ({T} \cup known_types)

\* The reorderings of an operand tuple of distinct types.
Permutations(types) ==
    {p \in [DOMAIN types -> Range(types)] : Range(p) = Range(types)}

\* C1: the entry point installed for owner type T with known types K returns
\* a module or a fallback exactly when every operand type is T or in K, and
\* the NotImplemented sentinel (never an exception) when some operand type,
\* at any position, is outside {T} \cup K, with or without a configured
\* module; every reordering of the operand tuple gets the same verdict.
C1_VerdictIffAllUnderstood ==
    last.op = "resolve" =>
        /\ ret.kind \in {"NotImplemented", "module", "object"}
        /\ (ret.kind # "NotImplemented")
              <=> AllUnderstood(ResolvedType, ResolvedEntry.known_types, last.types)
        /\ \A p \in Permutations(last.types) :
              (__array_module__(ResolvedEntry, last.self, p).kind = "NotImplemented")
                  <=> (ret.kind = "NotImplemented")

\* A type outside {T} \cup K in second position, after T itself, with a
\* module configured: the sentinel is returned.
C1_Witness ==
    /\ last.op = "resolve"
    /\ ret.kind = "NotImplemented"
    /\ Len(last.types) = 2
    /\ last.types[1] = ResolvedType
    /\ ResolvedEntry.module # None

\* C2: with a module M configured for T, every compatible resolution returns
\* exactly M and constructs no object.
C2_ModuleReturnedAsIs ==
    [][(/\ last'.op = "resolve"
        /\ registry[TypeOf(last'.self)].module # None
        /\ AllUnderstood(TypeOf(last'.self),
                         registry[TypeOf(last'.self)].known_types, last'.types))
       => (/\ ret' = [kind |-> "module",
                      module |-> registry[TypeOf(last'.self)].module]
           /\ heap' = heap)]_vars

\* A compatible resolution over two operand types returned the module.
C2_Witness ==
    /\ last.op = "resolve"
    /\ ret.kind = "module"
    /\ Len(last.types) = 2

\* C3: with no module configured, every compatible resolution constructs a
\* new fallback bound to the instance the entry point was called on: the
\* object did not exist before the call, and no existing object is replaced.
C3_FreshFallbackBoundToCaller ==
    [][(/\ last'.op = "resolve"
        /\ registry[TypeOf(last'.self)].module = None
        /\ AllUnderstood(TypeOf(last'.self),
                         registry[TypeOf(last'.self)].known_types, last'.types))
       => (/\ ret'.kind = "object"
           /\ ret'.id \notin DOMAIN heap
           /\ ret'.id \in DOMAIN heap'
           /\ heap'[ret'.id].cls = "_ArrayFunctionFallback"
           /\ heap'[ret'.id].dict._ArrayFunctionFallback__self = last'.self
           /\ \A id \in DOMAIN heap : heap'[id] = heap[id])]_vars

\* Two resolutions on two different instances have left two fallbacks, each
\* bound to its own instance.
C3_Witness ==
    /\ last.op = "resolve"
    /\ ret.kind = "object"
    /\ \E i, j \in IdsOf("_ArrayFunctionFallback") :
          /\ i # j
          /\ heap[i].dict._ArrayFunctionFallback__self = "a1"
          /\ heap[j].dict._ArrayFunctionFallback__self = "a2"

\* C4: without a module, registration on a type lacking __array_ufunc__ or
\* __array_function__ raises ValueError and leaves every entry point as it
\* was; with a module the hooks are not required and the entry point is
\* installed.
C4_MissingHookRejected ==
    [][last'.op = "inject" =>
         /\ (last'.module = None /\ ~(HasArrayUfunc(last'.arrtype)
                                      /\ HasArrayFunction(last'.arrtype)))
               => (/\ ret'.kind = "raise"
                   /\ ret'.exc = "ValueError"
                   /\ registry' = registry)
         /\ last'.module # None
               => (/\ ret'.kind = "None"
                   /\ registry'[last'.arrtype].installed
                   /\ registry'[last'.arrtype].module = last'.module)]_vars

\* A registration without module was rejected on a type lacking a hook whose
\* earlier entry point (installed with a module) is still in place.
C4_Witness ==
    /\ last.op = "inject"
    /\ last.module = None
    /\ ret.kind = "raise"
    /\ ~HasArrayFunction(last.arrtype)
    /\ registry[last.arrtype].installed

\* C10: registration is per owner type and the last one wins.  A successful
\* inject_array_module(T, K, M) leaves on T exactly the entry point of (K, M)
\* and leaves every other type's entry point as it was; nothing but a
\* successful registration changes an entry point; and a resolution on T is
\* decided by the (K, M) in place alone.
C10_LastRegistrationWins ==
    [][/\ (last'.op = "inject" /\ ret'.kind = "None")
          => (/\ registry'[last'.arrtype]
                    = [installed |-> TRUE, arrtype |-> last'.arrtype,
                       known_types |-> last'.known_types, module |-> last'.module]
              /\ \A T \in Types \ {last'.arrtype} : registry'[T] = registry[T])
       /\ (last'.op # "inject" \/ ret'.kind # "None") => registry' = registry
       /\ last'.op = "resolve"
          => LET T == TypeOf(last'.self)
                 understood == AllUnderstood(T, registry'[T].known_types, last'.types)
             IN  /\ (ret'.kind = "NotImplemented") <=> ~understood
                 /\ (ret'.kind = "module")
                       <=> (understood /\ registry'[T].module # None)
                 /\ ret'.kind = "module" => ret'.module = registry'[T].module]_vars

\* A registration succeeded on one type while another type holds an entry
\* point with a different known-type set.
C10_Witness ==
    /\ last.op = "inject"
    /\ ret.kind = "None"
    /\ \E T \in Types \ {last.arrtype} :
          /\ registry[T].installed
          /\ registry[T].known_types # last.known_types

-----------------------------------------------------------------------------
(* Properties of the fallback and its adapters (checked under Spec).       *)

\* Each argument converted to a numpy array and re-wrapped as owner type T:
\* the data is kept, the type is T.
Coerced(T, args) == [i \in 1..Len(args) |-> [type |-> T, data |-> args[i].data]]

\* The invocation of adapter obj's captured elementwise hook for `method`.
UfuncFrame(obj, method, args, kwargs) ==
    [hook |-> "__array_ufunc__", self |-> obj.dict.arrufunc.self,
     func |-> obj.dict.ufunc, method |-> method,
     types |-> <<TypeOf(obj.dict.arrufunc.self)>>,
     args |-> Coerced(TypeOf(obj.dict.arrufunc.self), args), kwargs |-> kwargs]

ArityError(r) == r.kind = "raise" /\ r.exc = "RuntimeError"

\* C5: the call form of an elementwise adapter for an operation of input
\* count n invokes the captured __array_ufunc__ hook exactly when it is given
\* n positional arguments: once, with the operation, "__call__", the
\* one-element tuple of the owner instance's type, the coerced arguments and
\* the keyword arguments as given; with any other count it raises the arity
\* error and no hook is invoked.  What the hook returns is the call's result.
C5_CallInvokesHookIffArity ==
    [][/\ last'.op = "__call__"
          => \A id \in IdsOf("_FakeUfunc"), call \in CallInputs :
                UfuncCallStep(id, call.args, call.kwargs)
                => IF Len(call.args) = heap[id].dict.ufunc.nin
                   THEN /\ stack' = Append(stack, UfuncFrame(heap[id], "__call__",
                                                             call.args, call.kwargs))
                        /\ ret'.kind = "pending"
                   ELSE /\ ArityError(ret')
                        /\ stack' = stack
       /\ (last'.op = "hook_return" /\ last'.frame.method = "__call__")
          => \A value \in HookValues :
                HookReturnStep(value) => ret' = [kind |-> "returned", value |-> value]
      ]_vars

\* The adapter of add was called with two arguments and the owner's hook is
\* running with them.
C5_Witness ==
    /\ last.op = "__call__"
    /\ ret.kind = "pending"
    /\ stack[Len(stack)].func.name = "add"
    /\ Len(stack[Len(stack)].args) = 2
    /\ stack[Len(stack)].args[1].type = "A"

\* C6 (as claimed): reduce, accumulate and outer of any elementwise adapter
\* invoke the captured hook with their own call-kind tag when given exactly
\* one positional argument, and raise the arity error for any other count.
C6_OneArgumentFormsInvokeHook ==
    [][last'.op \in {"reduce", "accumulate", "outer"}
          => \A id \in IdsOf("_FakeUfunc"), call \in CallInputs :
                (\/ UfuncReduceStep(id, call.args, call.kwargs)
                 \/ UfuncAccumulateStep(id, call.args, call.kwargs)
                 \/ UfuncOuterStep(id, call.args, call.kwargs))
                => IF Len(call.args) = 1
                   THEN /\ stack' = Append(stack, UfuncFrame(heap[id], last'.op,
                                                             call.args, call.kwargs))
                        /\ ret'.kind = "pending"
                   ELSE /\ ArityError(ret')
                        /\ stack' = stack
      ]_vars

\* The name looked up is in numpy's namespace but is neither a ufunc nor a
\* dispatched function.
Unclassifiable(attr) == attr \in NumpyNames /\ NumpySymbol(attr).kind = "other"

\* C7 (as claimed): a name absent from numpy raises the attribute error, and
\* a present but unclassifiable name raises an error of another kind.
C7_TwoErrorKinds ==
    last.op = "getattr" =>
        /\ last.attr \notin NumpyNames
              => (ret.kind = "raise" /\ ret.exc = "AttributeError")
        /\ Unclassifiable(last.attr)
              => (ret.kind = "raise" /\ ret.exc # "AttributeError")

\* C7 (amended): both lookups fail with AttributeError, the same error kind;
\* the two differ only in the message; neither constructs an adapter.
C7_BothAttributeError ==
    [][(last'.op = "getattr"
        /\ (last'.attr \notin NumpyNames \/ Unclassifiable(last'.attr)))
       => (/\ ret'.kind = "raise"
           /\ ret'.exc = "AttributeError"
           /\ (ret'.msg = "unsupported numpy function for")
                 <=> Unclassifiable(last'.attr)
           /\ heap' = heap)]_vars

\* The unclassifiable name pi was looked up on a fallback.
C7_Witness ==
    /\ last.op = "getattr"
    /\ last.attr = "pi"
    /\ ret.kind = "raise"

\* C8 (as claimed): fallback.array and fallback.asarray complete and return a
\* value of the owner type the fallback is bound to.
C8_ConstructorsReturnOwnerType ==
    last.op \in {"array", "asarray"} =>
        /\ ret.kind = "returned"
        /\ ret.value.type = TypeOf(heap[last.id].dict._ArrayFunctionFallback__self)

\* The verdict of T's entry point for an operand tuple, in the current state:
\* TRUE when its loop breaks and NotImplemented is returned.
Verdict(T, types) == LoopBreaks(registry[T], types, 1)

\* C9: no resolution, lookup, adapter call or hook return changes an entry
\* point, its known types or its module, nor the verdict of any installed
\* entry point for an operand tuple, nor an existing object, nor the frame
\* of a call still in progress: a call interrupted by a nested resolution
\* completes from the frame it started with.
C9_ResolutionIsStateless ==
    [][last'.op # "inject"
          => /\ registry' = registry
             /\ \A T \in {U \in Types : registry[U].installed}, types \in ResolveInputs :
                   Verdict(T, types)' <=> Verdict(T, types)
             /\ \A id \in DOMAIN heap : id \in DOMAIN heap' /\ heap'[id] = heap[id]
             /\ \A i \in DOMAIN stack : i \in DOMAIN stack' => stack'[i] = stack[i]
             /\ last'.op = "hook_return" => stack = Append(stack', last'.frame)
             /\ Len(stack') < Len(stack) => last'.op = "hook_return"
      ]_vars

\* A resolution made while the owner's hook is running constructed a second
\* fallback.
C9_Witness ==
    /\ last.op = "resolve"
    /\ ret.kind = "object"
    /\ stack # <<>>
    /\ Cardinality(IdsOf("_ArrayFunctionFallback")) >= 2

====
